---- MODULE Spec2Model ----
(***************************************************************************)
(* TimeSeries<T> (src/lib/timeseries.hpp): a std::map<time_t,T> with a     *)
(* label and a load flag, and two memberspaces (values, timestamps) that   *)
(* hold a reference to their owning object.                                *)
(*                                                                         *)
(* The std::map is modelled by its in-order node sequence: a sequence of   *)
(* pairs [first, second] that the map operations keep sorted by key.       *)
(* Allocation failure is modelled in the two assignment forms whose        *)
(* exception safety the source annotates (assign, operator=).              *)
(*                                                                         *)
(* Further parts: the lookup on() and the stores through view elements     *)
(* (SpecViews), frequency() and resample() of the archived class           *)
(* (SpecResample), the DataPoint constructors of src/lib/datapoint.cpp     *)
(* (SpecDataPoint), the connection handling of tsdb::Interface             *)
(* (SpecInterface), Interface::load filling a series (SpecLoad), and the   *)
(* return-accumulation loop of src/main.cpp (SpecMain). The MySQL server   *)
(* and connector are the environment: each of their calls succeeds or      *)
(* throws sql::SQLException as the action's input says.                    *)
(***************************************************************************)
EXTENDS Integers, Sequences, FiniteSets, TLC

\* ----------------------------------------------------------------- bounds

\* number of distinct unix timestamps the callers use
NumTimes == 2

\* the TimeSeries objects of the program (main.cpp holds two)
Objs == {"a", "b"}
NoObj == "none"

\* labels passed to the constructor / set_meta; "" is the default argument
Metas == {"", "ts1"}

\* values of the record type T
Recs == {"r1", "r2"}
NoRec == "none"

\* the timestamps in use: before and after the epoch, on different days
time_t == {(i - 1) * 50000 - 20000 : i \in 1..NumTimes}
NoTime == (0 - 20000) - 1

\* ------------------------------------------------------------- boost ptime

\* bpt::from_time_t(t): ptime(date(1970,1,1)) + seconds(t), held as a day
\* number relative to the epoch and the seconds within that day
from_time_t(t) == [day |-> t \div 86400, sec |-> t % 86400]

NoPtime == [day |-> 0, sec |-> 0 - 1]

\* operator<= of ptime: by date, then by time of day
PtimeLeq(p, q) == \/ p.day < q.day
                  \/ p.day = q.day /\ p.sec <= q.sec

\* --------------------------------------------------------------- std::map

EmptyMap == << >>

\* std::map::lower_bound: the first position whose key is not less than t
LowerBound(m, t) ==
    IF \E i \in 1..Len(m) : m[i].first >= t
    THEN CHOOSE i \in 1..Len(m) :
            /\ m[i].first >= t
            /\ \A j \in 1..(i - 1) : m[j].first < t
    ELSE Len(m) + 1

InsertAt(m, p, e) ==
    [i \in 1..(Len(m) + 1) |->
        IF i < p THEN m[i] ELSE IF i = p THEN e ELSE m[i - 1]]

\* a buggy insert that appends the node without looking for its place
MapInsertAppend(m, t, r) ==
    IF \E i \in 1..Len(m) : m[i].first = t
    THEN [map |-> m, second |-> FALSE]
    ELSE [map |-> Append(m, [first |-> t, second |-> r]), second |-> TRUE]

\* a buggy insert with insert_or_assign semantics
MapInsertOverwrite(m, t, r) ==
    LET p == LowerBound(m, t) IN
    IF p <= Len(m) /\ m[p].first = t
    THEN [map |-> [m EXCEPT ![p].second = r], second |-> FALSE]
    ELSE [map |-> InsertAt(m, p, [first |-> t, second |-> r]), second |-> TRUE]

\* std::map::insert / emplace of one pair: the resulting map and the bool
\* of the returned pair<iterator,bool>
MapInsert(m, t, r) ==
    LET p == LowerBound(m, t) IN
    IF p <= Len(m) /\ m[p].first = t
    THEN [map |-> m, second |-> FALSE]
    ELSE [map |-> InsertAt(m, p, [first |-> t, second |-> r]), second |-> TRUE]

\* the keys a map holds, and the record stored under a key
KeySet(m) == {m[i].first : i \in 1..Len(m)}
HasKey(m, t) == \E i \in 1..Len(m) : m[i].first = t
RecordAt(m, t) == m[CHOOSE i \in 1..Len(m) : m[i].first = t].second

\* ------------------------------------------------------------- the state

VARIABLES
    alive,            \* alive[o]: o has been constructed and not destroyed
    _data,            \* _data[o]: the TimeMap of o
    _meta,            \* _meta[o]: the label of o
    _isLoaded,        \* _isLoaded[o]: the load flag of o
    valuesOwner,      \* valuesOwner[o]: the object o.values.owner refers to
    timestampsOwner,  \* timestampsOwner[o]: the object o.timestamps.owner refers to
    insertedSince,    \* history: the timestamps inserted into o's map since it was last empty
    lastCall,         \* the last call: operation, arguments and result
    dp,               \* the last construction of a DataPoint: arguments and result
    _drv,             \* Interface::_drv: the driver pointer of the tsdb Interface
    _con,             \* Interface::_con: the connection the Interface owns
    _session_tz,      \* Interface::_session_tz: the stored session time zone
    loop              \* the return-accumulation loop of main: position, iterator, rets

vars == <<alive, _data, _meta, _isLoaded, valuesOwner, timestampsOwner,
          insertedSince, lastCall, dp, _drv, _con, _session_tz, loop>>

\* the variables of the TimeSeries objects
tsvars == <<alive, _data, _meta, _isLoaded, valuesOwner, timestampsOwner,
            insertedSince, lastCall>>

\* the variables of the tsdb Interface
dbvars == <<_drv, _con, _session_tz>>

\* std::unique_ptr< sql::Connection >: empty, or owning a connection that is
\* open or closed, with the schema it has selected and the time zone of its
\* server session
NULL == [null |-> TRUE]
Connection(closed, schema, tz) ==
    [null |-> FALSE, closed |-> closed, schema |-> schema, time_zone |-> tz]

\* the loop of main not entered: no iterator, rets empty
NoLoop == [pc |-> "none", obj |-> NoObj, it |-> 0, rets |-> << >>, before_begin |-> FALSE]

\* a call of the Interface: besides what Call holds, the table, record type
\* and date range it was given, the error code and the value it ended with,
\* and the rows it handed to the series
DbCall(op, o, table, T, start, end, res, fetched) ==
    [op |-> op, obj |-> o, arg |-> NoObj, t |-> NoTime,
     second |-> FALSE, pt |-> NoPtime, outcome |-> res.outcome,
     table |-> table, schema |-> T, start |-> start, end |-> end,
     code |-> res.code, value |-> res.value, fetched |-> fetched]

Call(op, o, s, t) ==
    [op |-> op, obj |-> o, arg |-> s, t |-> t,
     second |-> FALSE, pt |-> NoPtime, outcome |-> "returned"]

\* no DataPoint: what is left of a construction that threw
NoDataPoint == [schema |-> "none"]

\* a construction of a DataPoint: the constructor, the record type, the
\* arguments, and what came of it
Construction(ctor, T, init, res) ==
    [ctor |-> ctor, schema |-> T, init |-> init,
     outcome |-> res.outcome, code |-> res.code, rec |-> res.rec]

NoConstruction ==
    [ctor |-> "none", schema |-> "none", init |-> << >>,
     outcome |-> "none", code |-> 0, rec |-> NoDataPoint]

\* the three data members of a TimeSeries
State(o) == [data |-> _data[o], meta |-> _meta[o], isLoaded |-> _isLoaded[o]]

\* ------------------------------------------------- state related accessors

isLoaded(o) == _isLoaded[o]
isEmpty(o) == _data[o] = EmptyMap
size(o) == Len(_data[o])
meta(o) == _meta[o]

\* get_timestamps(): the keys copied out through boost::adaptors::map_keys
get_timestamps(o) == [i \in 1..Len(_data[o]) |-> _data[o][i].first]

\* begin()..end(): the pairs of the map in iteration order
Iterate(o) == _data[o]

\* values.begin()..values.end(): the seconds of the pairs that getDataPoint is
\* applied to, one per node of owner.begin()..owner.end()
ValuesTraversal(o) ==
    LET m == _data[valuesOwner[o]] IN [i \in 1..Len(m) |-> m[i].second]

\* timestamps.begin()..timestamps.end(): the firsts of the pairs that
\* getTimeStamp is applied to, one per node of owner._data
TimeStampsTraversal(o) ==
    LET m == _data[timestampsOwner[o]] IN [i \in 1..Len(m) |-> m[i].first]

\* getDataPoint and getTimeStamp take a const std::pair<time_t,T>&, while a
\* node of the map is a std::pair<const time_t,T>: each dereference of a view
\* iterator converts the node into a temporary pair and returns a reference
\* to a member of that temporary, which is destroyed before the dereference
\* returns. Reading through the reference is undefined: the caller gets the
\* value the temporary held, or an indeterminate one.
ReadValue(o, i) ==
    {[outcome |-> "returned", second |-> ValuesTraversal(o)[i]],
     [outcome |-> "returned_indeterminate", second |-> NoRec]}

ReadTimeStamp(o, i) ==
    {[outcome |-> "returned", first |-> TimeStampsTraversal(o)[i]],
     [outcome |-> "returned_indeterminate", first |-> NoTime]}

\* a getDataPoint that is handed the node itself: the store reaches the map
WriteThroughValueInPlace(m, i, r) == [m EXCEPT ![i].second = r]

\* `*it = r` on a values iterator: the store goes through the reference into
\* the destroyed temporary, the node of the map is not reached
WriteThroughValue(m, i, r) == m

\* a getTimeStamp that is handed the node itself: the store rewrites the key
\* of the node where it stands
WriteThroughTimeStampInPlace(m, i, t) == [m EXCEPT ![i].first = t]

\* `*it = t` on a timestamps iterator: as for the values view
WriteThroughTimeStamp(m, i, t) == m

\* a store through a dangling reference is undefined: it is lost in dead
\* storage, or the program stops
DanglingWrite == {"returned", "crashed"}

\* ------------------------------------------------------------ construction

\* a constructor that copies the memberspaces of the source along with the data
BindViewsToSource(self, ts) == ts

\* values(*this), timestamps(*this) in every constructor's initializer list
BindViews(self, ts) == self

\* TimeSeries(const std::string& meta = "")
DefaultCtorState(m) == [data |-> EmptyMap, meta |-> m, isLoaded |-> FALSE]

\* a copy constructor that forgets the label
CopyCtorStateNoMeta(ts) == [data |-> ts.data, meta |-> "", isLoaded |-> ts.isLoaded]

\* TimeSeries(const TimeSeries& ts)
CopyCtorState(ts) == [data |-> ts.data, meta |-> ts.meta, isLoaded |-> ts.isLoaded]

\* a move that copies the map and leaves the source's entries in place
MovedFromKeepsData(ts) == [data |-> ts.data, meta |-> "", isLoaded |-> FALSE]

\* what a move leaves in the source: std::move(ts._meta) and std::move(ts._data)
\* leave an empty string and an empty map (the node tree and the buffer are
\* taken over), and the body sets ts._isLoaded = false
MovedFrom(ts) == [data |-> EmptyMap, meta |-> "", isLoaded |-> FALSE]

\* TimeSeries(TimeSeries&& ts): the new object's members
MoveCtorState(ts) == [data |-> ts.data, meta |-> ts.meta, isLoaded |-> ts.isLoaded]

Init ==
    /\ alive = [o \in Objs |-> FALSE]
    /\ _data = [o \in Objs |-> EmptyMap]
    /\ _meta = [o \in Objs |-> ""]
    /\ _isLoaded = [o \in Objs |-> FALSE]
    /\ valuesOwner = [o \in Objs |-> NoObj]
    /\ timestampsOwner = [o \in Objs |-> NoObj]
    /\ insertedSince = [o \in Objs |-> {}]
    /\ lastCall = Call("none", NoObj, NoObj, NoTime)
    /\ dp = NoConstruction
    /\ _drv = "unconstructed"
    /\ _con = NULL
    /\ _session_tz = ""
    /\ loop = NoLoop

DefaultCtor(o, m) ==
    /\ ~alive[o]
    /\ LET new == DefaultCtorState(m) IN
        /\ _data' = [_data EXCEPT ![o] = new.data]
        /\ _meta' = [_meta EXCEPT ![o] = new.meta]
        /\ _isLoaded' = [_isLoaded EXCEPT ![o] = new.isLoaded]
    /\ alive' = [alive EXCEPT ![o] = TRUE]
    /\ valuesOwner' = [valuesOwner EXCEPT ![o] = BindViews(o, o)]
    /\ timestampsOwner' = [timestampsOwner EXCEPT ![o] = BindViews(o, o)]
    /\ insertedSince' = [insertedSince EXCEPT ![o] = {}]
    /\ lastCall' = Call("default_ctor", o, NoObj, NoTime)
    /\ UNCHANGED <<dp, dbvars, loop>>

CopyCtor(o, s) ==
    /\ ~alive[o] /\ alive[s]
    /\ LET new == CopyCtorState(State(s)) IN
        /\ _data' = [_data EXCEPT ![o] = new.data]
        /\ _meta' = [_meta EXCEPT ![o] = new.meta]
        /\ _isLoaded' = [_isLoaded EXCEPT ![o] = new.isLoaded]
    /\ alive' = [alive EXCEPT ![o] = TRUE]
    /\ valuesOwner' = [valuesOwner EXCEPT ![o] = BindViews(o, s)]
    /\ timestampsOwner' = [timestampsOwner EXCEPT ![o] = BindViews(o, s)]
    /\ insertedSince' = [insertedSince EXCEPT ![o] = insertedSince[s]]
    /\ lastCall' = Call("copy_ctor", o, s, NoTime)
    /\ UNCHANGED <<dp, dbvars, loop>>

MoveCtor(o, s) ==
    /\ ~alive[o] /\ alive[s]
    /\ LET new == MoveCtorState(State(s))
           old == MovedFrom(State(s)) IN
        /\ _data' = [_data EXCEPT ![o] = new.data, ![s] = old.data]
        /\ _meta' = [_meta EXCEPT ![o] = new.meta, ![s] = old.meta]
        /\ _isLoaded' = [_isLoaded EXCEPT ![o] = new.isLoaded, ![s] = old.isLoaded]
    /\ alive' = [alive EXCEPT ![o] = TRUE]
    /\ valuesOwner' = [valuesOwner EXCEPT ![o] = BindViews(o, s)]
    /\ timestampsOwner' = [timestampsOwner EXCEPT ![o] = BindViews(o, s)]
    /\ insertedSince' = [insertedSince EXCEPT ![o] = insertedSince[s], ![s] = {}]
    /\ lastCall' = Call("move_ctor", o, s, NoTime)
    /\ UNCHANGED <<dp, dbvars, loop>>

\* ~TimeSeries() = default
Dtor(o) ==
    /\ alive[o]
    /\ alive' = [alive EXCEPT ![o] = FALSE]
    /\ _data' = [_data EXCEPT ![o] = EmptyMap]
    /\ _meta' = [_meta EXCEPT ![o] = ""]
    /\ _isLoaded' = [_isLoaded EXCEPT ![o] = FALSE]
    /\ valuesOwner' = [valuesOwner EXCEPT ![o] = NoObj]
    /\ timestampsOwner' = [timestampsOwner EXCEPT ![o] = NoObj]
    /\ insertedSince' = [insertedSince EXCEPT ![o] = {}]
    /\ lastCall' = Call("dtor", o, NoObj, NoTime)
    /\ UNCHANGED <<dp, dbvars, loop>>

\* -------------------------------------------------------------- assignment

\* a swap that leaves the labels where they were
SwapStateKeepsMeta(ts1, ts2) ==
    [ts1 |-> [data |-> ts2.data, meta |-> ts1.meta, isLoaded |-> ts2.isLoaded],
     ts2 |-> [data |-> ts1.data, meta |-> ts2.meta, isLoaded |-> ts1.isLoaded]]

\* friend void swap(ts1, ts2): swaps _isLoaded, _meta and _data
SwapState(ts1, ts2) ==
    [ts1 |-> [data |-> ts2.data, meta |-> ts2.meta, isLoaded |-> ts2.isLoaded],
     ts2 |-> [data |-> ts1.data, meta |-> ts1.meta, isLoaded |-> ts1.isLoaded]]

swap(a, b) ==
    /\ alive[a] /\ alive[b]
    /\ LET new == SwapState(State(a), State(b)) IN
        /\ _data' = [_data EXCEPT ![a] = new.ts1.data, ![b] = new.ts2.data]
        /\ _meta' = [_meta EXCEPT ![a] = new.ts1.meta, ![b] = new.ts2.meta]
        /\ _isLoaded' = [_isLoaded EXCEPT ![a] = new.ts1.isLoaded, ![b] = new.ts2.isLoaded]
    /\ insertedSince' = [insertedSince EXCEPT ![a] = insertedSince[b], ![b] = insertedSince[a]]
    /\ lastCall' = Call("swap", a, b, NoTime)
    /\ UNCHANGED <<alive, valuesOwner, timestampsOwner>>
    /\ UNCHANGED <<dp, dbvars, loop>>

\* copying a series allocates when it has entries or a label
Allocates(ts) == ts.data # EmptyMap \/ ts.meta # ""

\* an assign that copies member by member into the target and stops where
\* the copy throws
AssignStateInPlace(self, rhs, fail) ==
    IF fail THEN [data |-> rhs.data, meta |-> self.meta, isLoaded |-> self.isLoaded]
    ELSE [data |-> rhs.data, meta |-> rhs.meta, isLoaded |-> rhs.isLoaded]

\* assign(TimeSeries rhs): the argument is copy constructed from the caller's
\* object, swapped with *this, and destroyed on return. When the copy throws,
\* assign is never entered.
AssignState(self, rhs, fail) ==
    IF fail THEN self
    ELSE SwapState(self, CopyCtorState(rhs)).ts1

assign(o, s, fail) ==
    /\ alive[o] /\ alive[s]
    /\ fail => Allocates(State(s))
    /\ LET new == AssignState(State(o), State(s), fail) IN
        /\ _data' = [_data EXCEPT ![o] = new.data]
        /\ _meta' = [_meta EXCEPT ![o] = new.meta]
        /\ _isLoaded' = [_isLoaded EXCEPT ![o] = new.isLoaded]
    /\ insertedSince' = [insertedSince EXCEPT ![o] = IF fail THEN @ ELSE insertedSince[s]]
    /\ lastCall' = [Call("assign", o, s, NoTime) EXCEPT
                        !.outcome = IF fail THEN "bad_alloc" ELSE "returned"]
    /\ UNCHANGED <<alive, valuesOwner, timestampsOwner>>
    /\ UNCHANGED <<dp, dbvars, loop>>

\* where a copy assignment can throw: nowhere, in this->_data = rhs._data,
\* or in _meta = rhs._meta
FailPoints == {"none", "data", "meta"}

\* what a std::map copy assignment that throws may leave in the target: the
\* old entries, or the source's entries up to the node that was not allocated
PartialCopies(old, src) ==
    {old} \cup {SubSeq(src, 1, k) : k \in 0..(Len(src) - 1)}

\* a copy assignment that assigns the label before the map
CopyAssignStateMetaFirst(self, rhs, fail, left) ==
    CASE fail = "none" -> [data |-> rhs.data, meta |-> rhs.meta, isLoaded |-> rhs.isLoaded]
      [] fail = "meta" -> self
      [] fail = "data" -> [data |-> left, meta |-> rhs.meta, isLoaded |-> self.isLoaded]

\* operator=(const TimeSeries& rhs) for this != &rhs: three assignments in
\* turn, _data, _meta, _isLoaded; a throw leaves the later ones undone.
\* std::string's assignment leaves the string as it was when it throws.
CopyAssignState(self, rhs, fail, left) ==
    CASE fail = "none" -> [data |-> rhs.data, meta |-> rhs.meta, isLoaded |-> rhs.isLoaded]
      [] fail = "data" -> [data |-> left, meta |-> self.meta, isLoaded |-> self.isLoaded]
      [] fail = "meta" -> [data |-> rhs.data, meta |-> self.meta, isLoaded |-> self.isLoaded]

CopyAssign(o, s, fail) ==
    /\ alive[o] /\ alive[s]
    /\ fail = "data" => o # s /\ _data[s] # EmptyMap
    /\ fail = "meta" => o # s /\ _meta[s] # ""
    /\ \E left \in (IF fail = "data" THEN PartialCopies(_data[o], _data[s]) ELSE {EmptyMap}) :
        LET new == IF o = s THEN State(o)
                   ELSE CopyAssignState(State(o), State(s), fail, left) IN
        /\ _data' = [_data EXCEPT ![o] = new.data]
        /\ _meta' = [_meta EXCEPT ![o] = new.meta]
        /\ _isLoaded' = [_isLoaded EXCEPT ![o] = new.isLoaded]
        /\ insertedSince' = [insertedSince EXCEPT ![o] =
                IF fail # "data" THEN insertedSince[s]
                ELSE IF left = _data[o] THEN @
                ELSE {left[i].first : i \in 1..Len(left)}]
    /\ lastCall' = [Call("copy_assign", o, s, NoTime) EXCEPT
                        !.outcome = CASE fail = "none" -> "returned"
                                      [] fail = "data" -> "bad_alloc_in_data"
                                      [] fail = "meta" -> "bad_alloc_in_meta"]
    /\ UNCHANGED <<alive, valuesOwner, timestampsOwner>>
    /\ UNCHANGED <<dp, dbvars, loop>>

\* operator=(TimeSeries&& rhs) for this != &rhs: the target's members
MoveAssignState(rhs) == [data |-> rhs.data, meta |-> rhs.meta, isLoaded |-> rhs.isLoaded]

\* operator=(TimeSeries&& rhs)
MoveAssign(o, s) ==
    /\ alive[o] /\ alive[s]
    /\ IF o = s
       THEN UNCHANGED <<_data, _meta, _isLoaded, insertedSince>>
       ELSE LET new == MoveAssignState(State(s))
                old == MovedFrom(State(s)) IN
            /\ _data' = [_data EXCEPT ![o] = new.data, ![s] = old.data]
            /\ _meta' = [_meta EXCEPT ![o] = new.meta, ![s] = old.meta]
            /\ _isLoaded' = [_isLoaded EXCEPT ![o] = new.isLoaded, ![s] = old.isLoaded]
            /\ insertedSince' = [insertedSince EXCEPT ![o] = insertedSince[s], ![s] = {}]
    /\ lastCall' = Call("move_assign", o, s, NoTime)
    /\ UNCHANGED <<alive, valuesOwner, timestampsOwner>>
    /\ UNCHANGED <<dp, dbvars, loop>>

\* ---------------------------------------------------------------- mutators

\* insert, in its three overloads: _data.insert(val).second,
\* _data.insert(std::move(val)).second and _data.emplace(t, mval).second.
\* Each hands the pair (t, r) to the map and returns the bool of the result.
insert(o, t, r) ==
    /\ alive[o]
    /\ LET res == MapInsert(_data[o], t, r) IN
        /\ _data' = [_data EXCEPT ![o] = res.map]
        /\ lastCall' = [Call("insert", o, NoObj, t) EXCEPT !.second = res.second]
    /\ insertedSince' = [insertedSince EXCEPT ![o] = @ \cup {t}]
    /\ UNCHANGED <<alive, _meta, _isLoaded, valuesOwner, timestampsOwner>>
    /\ UNCHANGED <<dp, dbvars, loop>>

\* a clear that also resets the label
ClearStateResetsMeta(ts) == [data |-> EmptyMap, meta |-> "", isLoaded |-> ts.isLoaded]

\* clear(): _data.clear()
ClearState(ts) == [data |-> EmptyMap, meta |-> ts.meta, isLoaded |-> ts.isLoaded]

clear(o) ==
    /\ alive[o]
    /\ LET new == ClearState(State(o)) IN
        /\ _data' = [_data EXCEPT ![o] = new.data]
        /\ _meta' = [_meta EXCEPT ![o] = new.meta]
        /\ _isLoaded' = [_isLoaded EXCEPT ![o] = new.isLoaded]
    /\ insertedSince' = [insertedSince EXCEPT ![o] = {}]
    /\ lastCall' = Call("clear", o, NoObj, NoTime)
    /\ UNCHANGED <<alive, valuesOwner, timestampsOwner>>
    /\ UNCHANGED <<dp, dbvars, loop>>

\* set_meta(meta): _meta.assign(meta)
set_meta(o, m) ==
    /\ alive[o]
    /\ _meta' = [_meta EXCEPT ![o] = m]
    /\ lastCall' = Call("set_meta", o, NoObj, NoTime)
    /\ UNCHANGED <<alive, _data, _isLoaded, valuesOwner, timestampsOwner,
                   insertedSince>>
    /\ UNCHANGED <<dp, dbvars, loop>>

\* *it = r for the i-th iterator of o.values
WriteValue(o, i, r) ==
    /\ alive[o]
    /\ i \in 1..Len(_data[valuesOwner[o]])
    /\ _data' = [_data EXCEPT
                    ![valuesOwner[o]] = WriteThroughValue(_data[valuesOwner[o]], i, r)]
    /\ \E w \in DanglingWrite :
        lastCall' = [Call("write_value", o, NoObj, _data[valuesOwner[o]][i].first)
                        EXCEPT !.outcome = w]
    /\ UNCHANGED <<alive, _meta, _isLoaded, valuesOwner, timestampsOwner,
                   insertedSince>>
    /\ UNCHANGED <<dp, dbvars, loop>>

\* *it = t for the i-th iterator of o.timestamps
WriteTimeStamp(o, i, t) ==
    /\ alive[o]
    /\ i \in 1..Len(_data[timestampsOwner[o]])
    /\ _data' = [_data EXCEPT
                    ![timestampsOwner[o]] = WriteThroughTimeStamp(_data[timestampsOwner[o]], i, t)]
    /\ \E w \in DanglingWrite :
        lastCall' = [Call("write_timestamp", o, NoObj, _data[timestampsOwner[o]][i].first)
                        EXCEPT !.outcome = w]
    /\ UNCHANGED <<alive, _meta, _isLoaded, valuesOwner, timestampsOwner,
                   insertedSince>>
    /\ UNCHANGED <<dp, dbvars, loop>>

\* --------------------------------------------------------------- accessors

\* _data.begin()->first: on an empty map begin() is end(), and reading through
\* it is undefined: the read yields an indeterminate value or the program stops
BeginFirst(m) ==
    IF m # EmptyMap
    THEN {[outcome |-> "returned", t |-> m[1].first]}
    ELSE {[outcome |-> "crashed", t |-> NoTime],
          [outcome |-> "returned_indeterminate", t |-> NoTime]}

\* _data.rbegin()->first on a map with entries
RBeginFirst(m) == {[outcome |-> "returned", t |-> m[Len(m)].first]}

ToPtime(reads) ==
    {[outcome |-> x.outcome,
      pt |-> IF x.outcome = "returned" THEN from_time_t(x.t) ELSE NoPtime] : x \in reads}

\* first(): bpt::from_time_t(_data.begin()->first)
first_result(m) == ToPtime(BeginFirst(m))

\* a last() that reads the first node whatever the size
last_result_begin(m) == ToPtime(BeginFirst(m))

\* last(): if( !size() ) begin()->first, else rbegin()->first
last_result(m) ==
    IF Len(m) = 0 THEN ToPtime(BeginFirst(m)) ELSE ToPtime(RBeginFirst(m))

first(o) ==
    /\ alive[o]
    /\ \E res \in first_result(_data[o]) :
        lastCall' = [Call("first", o, NoObj, NoTime) EXCEPT
                        !.outcome = res.outcome, !.pt = res.pt]
    /\ UNCHANGED <<alive, _data, _meta, _isLoaded, valuesOwner, timestampsOwner,
                   insertedSince>>
    /\ UNCHANGED <<dp, dbvars, loop>>

last(o) ==
    /\ alive[o]
    /\ \E res \in last_result(_data[o]) :
        lastCall' = [Call("last", o, NoObj, NoTime) EXCEPT
                        !.outcome = res.outcome, !.pt = res.pt]
    /\ UNCHANGED <<alive, _data, _meta, _isLoaded, valuesOwner, timestampsOwner,
                   insertedSince>>
    /\ UNCHANGED <<dp, dbvars, loop>>

\* on(tm): `return _data.at(tm);` hands a const T& to a function that returns
\* a const_iterator, and there is no conversion from one to the other: an
\* instantiation of on() is ill-formed, whether or not tm is a key, so a call
\* yields neither the entry nor end()
on_result(m, t) == [outcome |-> "ill_formed", t |-> NoTime]

on(o, t) ==
    /\ alive[o]
    /\ lastCall' = [Call("on", o, NoObj, t) EXCEPT
                        !.outcome = on_result(_data[o], t).outcome]
    /\ UNCHANGED <<alive, _data, _meta, _isLoaded, valuesOwner, timestampsOwner,
                   insertedSince>>
    /\ UNCHANGED <<dp, dbvars, loop>>

\* a subscript with the meaning of std::map::operator[]: a key that is not
\* there is inserted with a default record
SubscriptStateInserts(m, t) == MapInsert(m, t, NoRec).map

\* operator[](k): `return _data.at( k );`, a lookup that leaves the map alone
SubscriptState(m, t) == m

\* what operator[](k) gives back: the mapped record of the node with key k,
\* or the std::out_of_range that std::map::at throws
subscript_result(m, t) ==
    IF \E i \in 1..Len(m) : m[i].first = t
    THEN [outcome |-> "returned", second |-> m[LowerBound(m, t)].second]
    ELSE [outcome |-> "std::out_of_range", second |-> NoRec]

subscript(o, t) ==
    /\ alive[o]
    /\ _data' = [_data EXCEPT ![o] = SubscriptState(_data[o], t)]
    /\ lastCall' = [Call("subscript", o, NoObj, t) EXCEPT
                        !.outcome = subscript_result(_data[o], t).outcome]
    /\ UNCHANGED <<alive, _meta, _isLoaded, valuesOwner, timestampsOwner,
                   insertedSince>>
    /\ UNCHANGED <<dp, dbvars, loop>>

\* ------------------------------------------------------------ specification

Next ==
    \/ \E o \in Objs, m \in Metas : DefaultCtor(o, m)
    \/ \E o, s \in Objs : CopyCtor(o, s)
    \/ \E o, s \in Objs : MoveCtor(o, s)
    \/ \E o \in Objs : Dtor(o)
    \/ \E a, b \in Objs : swap(a, b)
    \/ \E o, s \in Objs, fail \in BOOLEAN : assign(o, s, fail)
    \/ \E o, s \in Objs, fail \in FailPoints : CopyAssign(o, s, fail)
    \/ \E o, s \in Objs : MoveAssign(o, s)
    \/ \E o \in Objs, t \in time_t, r \in Recs : insert(o, t, r)
    \/ \E o \in Objs : clear(o)
    \/ \E o \in Objs, m \in Metas : set_meta(o, m)
    \/ \E o \in Objs, i \in 1..NumTimes, r \in Recs : WriteValue(o, i, r)
    \/ \E o \in Objs : first(o)
    \/ \E o \in Objs : last(o)

Spec == Init /\ [][Next]_vars

\* the operations that build and reshape mappings, together with the lookup
\* by timestamp and the stores through elements of the two views; the series
\* are constructed with the default label, which no view looks at
NextViews ==
    \/ \E o \in Objs : DefaultCtor(o, "")
    \/ \E o, s \in Objs : CopyCtor(o, s)
    \/ \E o, s \in Objs : MoveCtor(o, s)
    \/ \E o \in Objs : Dtor(o)
    \/ \E a, b \in Objs : swap(a, b)
    \/ \E o, s \in Objs : MoveAssign(o, s)
    \/ \E o \in Objs, t \in time_t, r \in Recs : insert(o, t, r)
    \/ \E o \in Objs : clear(o)
    \/ \E o \in Objs, i \in 1..NumTimes, r \in Recs : WriteValue(o, i, r)
    \/ \E o \in Objs, i \in 1..NumTimes, t \in time_t : WriteTimeStamp(o, i, t)
    \/ \E o \in Objs, t \in time_t : on(o, t)
    \/ \E o \in Objs, t \in time_t : subscript(o, t)

SpecViews == Init /\ [][NextViews]_vars

\* ------------------------------------------------- frequency and resampling
\* The members exist in the archived TimeSeries class (src/archive); in
\* lib/timeseries.hpp they are commented out ("tbc"). Their bodies do not
\* look at the series, so they are applied here to the series state above.

\* the frequencies a caller asks for, in seconds: none, half the spacing of
\* the timestamps in use, the spacing, and twice the spacing
Freqs == {0, 25000, 50000, 100000}

\* TimeSeries::frequency(): `return bpt::time_duration();`, the duration of
\* zero hours, minutes and seconds, whatever the series holds
frequency_result(m) == [outcome |-> "returned", seconds |-> 0 * 3600 + 0 * 60 + 0]

frequency(o) ==
    /\ alive[o]
    /\ LET res == frequency_result(_data[o]) IN
        lastCall' = [Call("frequency", o, NoObj, res.seconds) EXCEPT
                        !.outcome = res.outcome]
    /\ UNCHANGED <<alive, _data, _meta, _isLoaded, valuesOwner, timestampsOwner,
                   insertedSince>>
    /\ UNCHANGED <<dp, dbvars, loop>>

\* a resample that works in place and keeps the entries on a bucket boundary
ResampleStateInPlace(ts, freq) ==
    [data |-> SelectSeq(ts.data, LAMBDA e : freq > 0 /\ e.first % freq = 0),
     meta |-> ts.meta, isLoaded |-> ts.isLoaded]

\* void resample(time_t freq) and void resample(bpt::time_duration freq):
\* the bodies hold comments only, the series is left as it is
ResampleState(ts, freq) == ts

\* what a call of resample gives back: the functions are void, they return
\* without a value and throw nothing, whatever freq is
resample_result(ts, freq) == [outcome |-> "returned_void", data |-> EmptyMap]

resample(o, freq) ==
    /\ alive[o]
    /\ LET new == ResampleState(State(o), freq) IN
        /\ _data' = [_data EXCEPT ![o] = new.data]
        /\ _meta' = [_meta EXCEPT ![o] = new.meta]
        /\ _isLoaded' = [_isLoaded EXCEPT ![o] = new.isLoaded]
    /\ lastCall' = [Call("resample", o, NoObj, freq) EXCEPT
                        !.outcome = resample_result(State(o), freq).outcome]
    /\ UNCHANGED <<alive, valuesOwner, timestampsOwner, insertedSince>>
    /\ UNCHANGED <<dp, dbvars, loop>>

NextResample ==
    \/ \E o \in Objs, m \in Metas : DefaultCtor(o, m)
    \/ \E o, s \in Objs : CopyCtor(o, s)
    \/ \E o \in Objs, t \in time_t, r \in Recs : insert(o, t, r)
    \/ \E o \in Objs : clear(o)
    \/ \E o \in Objs : frequency(o)
    \/ \E o \in Objs, freq \in Freqs : resample(o, freq)

SpecResample == Init /\ [][NextResample]_vars

\* --------------------------------------------------------------- datapoint

\* longest vector handed to a vector constructor
MaxInit == 6

\* the record types derived from DataPoint
Schemas == {"OHLC", "OHLCV", "BidAsk"}

\* the primary template of dp_names, for a type without a specialisation
dp_names_primary(T) == <<"">>

\* dp_names<T>(): the specialisations for OHLC, OHLCV and BidAsk
dp_names(T) ==
    CASE T = "OHLC" -> <<"open", "high", "low", "close">>
      [] T = "OHLCV" -> <<"open", "high", "low", "close", "volume">>
      [] T = "BidAsk" -> <<"bid", "ask">>

\* TimeSeries<T>::column_names(): return dp::dp_names<T>(); no member of the
\* series is read
column_names(T, ts) == dp_names(T)

\* a double is held as m * 2^e with integers m and e (m odd, or e = 0):
\* 3, -2.5 and 2^40
Doubles == {[m |-> 3, e |-> 0], [m |-> 0 - 5, e |-> 0 - 1], [m |-> 1, e |-> 40]}

\* the arguments passed for `int v`
Ints == {0 - 2, 0, 3}

\* the range of int
INT_MAX == (2^30 - 1) * 2 + 1
INT_MIN == (0 - INT_MAX) - 1

Abs(n) == IF n >= 0 THEN n ELSE 0 - n

\* the conversion of a double to int in volume(init.at(4)): the fractional
\* part is discarded, towards zero. A value outside the range of int makes
\* the conversion undefined; builds yield INT_MIN (x86) or INT_MAX (saturating)
DoubleToInt(d) ==
    IF d.e < 0
    THEN LET q == Abs(d.m) \div 2^(0 - d.e) IN {IF d.m >= 0 THEN q ELSE 0 - q}
    ELSE IF d.e < 31 /\ Abs(d.m) <= INT_MAX \div 2^d.e
         THEN {d.m * 2^d.e}
         ELSE {INT_MIN, INT_MAX}

\* std::vector::at(i), counted from 0: the element when i < size(), else it
\* throws std::out_of_range
InRange(init, i) == i < Len(init)
at(init, i) == init[i + 1]

\* the members the constructors initialise
OHLC_fields(o, h, l, c) == [open |-> o, high |-> h, low |-> l, close |-> c]
OHLCV_fields(o, h, l, c, v) == [open |-> o, high |-> h, low |-> l, close |-> c, volume |-> v]
BidAsk_fields(b, a) == [bid |-> b, ask |-> a]

Built(rec) == [outcome |-> "constructed", code |-> 0, rec |-> rec]
Thrown(what, code) == [outcome |-> what, code |-> code, rec |-> NoDataPoint]

\* a vector constructor without the function try block
OHLC_vector_uncaught(init) ==
    IF \E i \in 0..3 : ~InRange(init, i)
    THEN {Thrown("std::out_of_range", 0)}
    ELSE {Built(OHLC_fields(at(init, 0), at(init, 1), at(init, 2), at(init, 3)))}

\* OHLC::OHLC(const std::vector<double>& init) try : open(init.at(0)),
\* high(init.at(1)), low(init.at(2)), close(init.at(3)) { }
\* catch( std::out_of_range& e ){ throw DataPointException(1000); }
OHLC_vector(init) ==
    IF \E i \in 0..3 : ~InRange(init, i)
    THEN {Thrown("DataPointException", 1000)}
    ELSE {Built(OHLC_fields(at(init, 0), at(init, 1), at(init, 2), at(init, 3)))}

\* OHLCV::OHLCV(const std::vector<double>& init): as OHLC, and
\* volume(init.at(4)) converts the double to int. (The members are
\* initialised in the order of their declaration, volume first; every
\* init.at() that throws is caught by the same handler.)
OHLCV_vector(init) ==
    IF \E i \in 0..4 : ~InRange(init, i)
    THEN {Thrown("DataPointException", 1000)}
    ELSE {Built(OHLCV_fields(at(init, 0), at(init, 1), at(init, 2), at(init, 3), v)) :
            v \in DoubleToInt(at(init, 4))}

\* a vector constructor that reads ask before bid
BidAsk_vector_swapped(init) ==
    IF \E i \in 0..1 : ~InRange(init, i)
    THEN {Thrown("DataPointException", 1000)}
    ELSE {Built(BidAsk_fields(at(init, 1), at(init, 0)))}

\* BidAsk::BidAsk(const std::vector<double>& init): bid(init.at(0)), ask(init.at(1))
BidAsk_vector(init) ==
    IF \E i \in 0..1 : ~InRange(init, i)
    THEN {Thrown("DataPointException", 1000)}
    ELSE {Built(BidAsk_fields(at(init, 0), at(init, 1)))}

FromVector(T, init) ==
    CASE T = "OHLC" -> OHLC_vector(init)
      [] T = "OHLCV" -> OHLCV_vector(init)
      [] T = "BidAsk" -> BidAsk_vector(init)

\* the vectors handed to the constructors
Inits == UNION {[1..n -> Doubles] : n \in 0..MaxInit}

\* every constructor builds an object that did not exist before

\* T(const std::vector<double>& init)
ConstructFromVector(T, init) ==
    /\ dp = NoConstruction
    /\ \E res \in FromVector(T, init) : dp' = Construction("vector", T, init, res)
    /\ UNCHANGED <<tsvars, dbvars, loop>>

\* OHLC(double o, double h, double l, double c)
OHLC_ctor(o, h, l, c) ==
    /\ dp = NoConstruction
    /\ dp' = Construction("fields", "OHLC", <<o, h, l, c>>, Built(OHLC_fields(o, h, l, c)))
    /\ UNCHANGED <<tsvars, dbvars, loop>>

\* OHLCV(double o, double h, double l, double c, int v)
OHLCV_ctor(o, h, l, c, v) ==
    /\ dp = NoConstruction
    /\ dp' = Construction("fields", "OHLCV", <<o, h, l, c, v>>, Built(OHLCV_fields(o, h, l, c, v)))
    /\ UNCHANGED <<tsvars, dbvars, loop>>

\* BidAsk(double b, double a)
BidAsk_ctor(b, a) ==
    /\ dp = NoConstruction
    /\ dp' = Construction("fields", "BidAsk", <<b, a>>, Built(BidAsk_fields(b, a)))
    /\ UNCHANGED <<tsvars, dbvars, loop>>

\* Interface::load<T>: the query selects date_time and then the columns
\* dp_names<T>() in their order; column i of a result row, from 2 up to the
\* column count, is pushed to the vector that T is constructed from
LoadQueryColumns(T) == <<"date_time">> \o dp_names(T)
LoadRow(resultRow) == [i \in 1..(Len(resultRow) - 1) |-> resultRow[i + 1]]

NextDataPoint ==
    \/ \E T \in Schemas, init \in Inits : ConstructFromVector(T, init)
    \/ \E o, h, l, c \in Doubles : OHLC_ctor(o, h, l, c)
    \/ \E o, h, l, c \in Doubles, v \in Ints : OHLCV_ctor(o, h, l, c, v)
    \/ \E b, a \in Doubles : BidAsk_ctor(b, a)

SpecDataPoint == Init /\ [][NextDataPoint]_vars

\* ---------------------------------------------------------- tsdb Interface

\* the TimeSeries variables an Interface call leaves alone unless it loads
seriesvars == <<alive, _data, _meta, _isLoaded, valuesOwner, timestampsOwner,
                insertedSince>>

\* the server behind HOST, as information_schema.tables shows it: the tables
\* of schema DATABASE and a table of another schema
information_schema_tables ==
    {[table_schema |-> "tsdb", table_name |-> "ohlcv"],
     [table_schema |-> "information_schema", table_name |-> "columns"]}

\* the table names handed to the Interface
TableNames == {"ohlcv", "columns", "nosuch"}

\* the members of an Interface that a call reads and writes
Members == [drv |-> _drv, con |-> _con, tz |-> _session_tz]

\* what a call leaves behind: the members, how it ended, the error code of a
\* TSDBInterfaceException and the value returned
Ended(I, con, tz, outcome, code, value) ==
    [drv |-> I.drv, con |-> con, tz |-> tz,
     outcome |-> outcome, code |-> code, value |-> value]
Returned(I, value) == Ended(I, I.con, I.tz, "returned", 0, value)
Throws(I, con, tz, code) == Ended(I, con, tz, "TSDBInterfaceException", code, FALSE)

\* Interface(user, password): _drv = get_driver_instance(), an SQLException
\* is printed and leaves _drv null
Interface_ctor(driverFails) ==
    /\ _drv = "unconstructed"
    /\ _drv' = IF driverFails THEN "NULL" ELSE "driver"
    /\ _con' = NULL
    /\ _session_tz' = ""
    /\ lastCall' = Call("Interface", NoObj, NoObj, NoTime)
    /\ UNCHANGED <<seriesvars, dp, loop>>

\* isConnected(): _con.get() != NULL and !_con->isClosed()
isConnected(I) == IF I.con.null THEN FALSE ELSE ~I.con.closed

\* the calls of connect() that can throw an sql::SQLException, in the order
\* they are made, and "time_zone" for a session that does not report '+00:00'
ConnectFailPoints ==
    {"none", "connect", "setSchema", "setAutoCommit", "execute", "executeQuery",
     "time_zone"}

\* connect(): every sql::SQLException becomes TSDBInterfaceException(1), and
\* TSDBInterfaceException(6) is thrown past the handler; neither path resets
\* _con
connect_result(I, fail) ==
    CASE I.drv = "NULL" -> Ended(I, I.con, I.tz, "crashed", 0, FALSE)
      [] I.drv # "NULL" /\ fail = "connect" -> Throws(I, I.con, I.tz, 1)
      [] I.drv # "NULL" /\ fail = "setSchema" ->
            Throws(I, Connection(FALSE, "", "SYSTEM"), I.tz, 1)
      [] I.drv # "NULL" /\ fail \in {"setAutoCommit", "execute"} ->
            Throws(I, Connection(FALSE, "tsdb", "SYSTEM"), I.tz, 1)
      [] I.drv # "NULL" /\ fail = "executeQuery" ->
            Throws(I, Connection(FALSE, "tsdb", "+00:00"), I.tz, 1)
      [] I.drv # "NULL" /\ fail = "time_zone" ->
            Throws(I, Connection(FALSE, "tsdb", "SYSTEM"), "SYSTEM", 6)
      [] I.drv # "NULL" /\ fail = "none" ->
            Ended(I, Connection(FALSE, "tsdb", "+00:00"), "+00:00", "returned", 0, FALSE)

connect(fail) ==
    /\ _drv # "unconstructed"
    /\ LET res == connect_result(Members, fail) IN
        /\ _con' = res.con
        /\ _session_tz' = res.tz
        /\ lastCall' = DbCall("connect", NoObj, "", "none", NoPtime, NoPtime, res, << >>)
    /\ UNCHANGED <<seriesvars, dp, _drv, loop>>

\* disconnect(): nothing to do without a connection; otherwise close, reset
\* and clear the time zone, and an sql::SQLException of close() is printed
\* with the reset and the clearing skipped. What a close() that threw has
\* done to the connection is the connector's business.
disconnect_result(I, closeThrows, leftClosed) ==
    IF I.con.null THEN Returned(I, FALSE)
    ELSE IF closeThrows
         THEN Ended(I, [I.con EXCEPT !.closed = leftClosed], I.tz, "returned", 0, FALSE)
         ELSE Ended(I, NULL, "", "returned", 0, FALSE)

disconnect(closeThrows, leftClosed) ==
    /\ _drv # "unconstructed"
    /\ LET res == disconnect_result(Members, closeThrows, leftClosed) IN
        /\ _con' = res.con
        /\ _session_tz' = res.tz
        /\ lastCall' = [DbCall("disconnect", NoObj, "", "none", NoPtime, NoPtime, res, << >>)
                            EXCEPT !.second = closeThrows]
    /\ UNCHANGED <<seriesvars, dp, _drv, loop>>

\* SELECT table_name FROM information_schema.tables WHERE table_name = name
TablesNamed(name) == {r \in information_schema_tables : r.table_name = name}

\* has_table(name): connect if not connected, count the rows of the query;
\* an sql::SQLException gives false, and the TSDBInterfaceException of
\* connect() is not an sql::SQLException
has_table_result(I, name, cfail, qfail) ==
    LET c == IF isConnected(I) THEN Returned(I, FALSE) ELSE connect_result(I, cfail) IN
    IF c.outcome # "returned" THEN c
    ELSE IF qfail THEN Ended(I, c.con, c.tz, "returned", 0, FALSE)
    ELSE Ended(I, c.con, c.tz, "returned", 0, Cardinality(TablesNamed(name)) # 0)

has_table(name, cfail, qfail) ==
    /\ _drv # "unconstructed"
    /\ isConnected(Members) => cfail = "none"
    /\ LET res == has_table_result(Members, name, cfail, qfail) IN
        /\ _con' = res.con
        /\ _session_tz' = res.tz
        /\ lastCall' = [DbCall("has_table", NoObj, name, "none", NoPtime, NoPtime, res, << >>)
                            EXCEPT !.second = qfail]
    /\ UNCHANGED <<seriesvars, dp, _drv, loop>>

\* SHOW COLUMNS FROM table, asked of a connection: the columns of the table
\* of that name in the schema the connection has selected
ShowColumns(con, table) ==
    IF con.schema = "tsdb" /\ table = "ohlcv"
    THEN [outcome |-> "returned",
          cols |-> {"date_time", "open", "high", "low", "close", "volume"}]
    ELSE [outcome |-> "sql::SQLException", cols |-> {}]

\* the calls of get_column_names that can fail
ColumnFailPoints == {"none", "has_table", "executeQuery"}

\* get_column_names(table): connect if not connected, TSDBInterfaceException(2)
\* if has_table says no, the Field of every row of SHOW COLUMNS otherwise, and
\* TSDBInterfaceException(7) for an sql::SQLException
get_column_names_result(I, table, cfail, fail) ==
    LET c == IF isConnected(I) THEN Returned(I, {}) ELSE connect_result(I, cfail) IN
    IF c.outcome # "returned" THEN c
    ELSE LET h == has_table_result(c, table, "none", fail = "has_table")
             shown == ShowColumns(c.con, table)
         IN IF ~h.value THEN Throws(I, c.con, c.tz, 2)
            ELSE IF fail = "executeQuery" \/ shown.outcome # "returned"
                 THEN Throws(I, c.con, c.tz, 7)
                 ELSE Ended(I, c.con, c.tz, "returned", 0, shown.cols)

\* std::includes over the two sorted vectors: every name of the second is in
\* the first (the names of dp_names<T>() are distinct)
includes(columns, t_columns) ==
    \A i \in 1..Len(t_columns) : t_columns[i] \in columns

\* _columns_match_type<T>(table)
columns_match_type_result(I, T, table, fail) ==
    LET g == get_column_names_result(I, table, "none", fail) IN
    IF g.outcome # "returned" THEN g
    ELSE Ended(I, g.con, g.tz, "returned", 0, includes(g.value, dp_names(T)))

\* utilities::bpt_to_str: the ISO extended string with the separator at
\* position 10 replaced by a blank, held as its date part and its time part
bpt_to_str(p) == [date |-> p.day, time |-> p.sec]

\* bpt::time_from_string
time_from_string(str) == [day |-> str.date, sec |-> str.time]

\* utilities::bpt_to_time_t: (pt - epoch) in ticks over ticks per second
bpt_to_time_t(pt) == pt.day * 86400 + pt.sec

\* utilities::str_to_time_t
str_to_time_t(str) == bpt_to_time_t(time_from_string(str))

is_not_a_date_time(p) == p = NoPtime

\* operator> of ptime: false when either side is not_a_date_time
PtimeGreater(p, q) ==
    /\ ~is_not_a_date_time(p)
    /\ ~is_not_a_date_time(q)
    /\ ~PtimeLeq(p, q)

\* the timestamps in ascending order
SortedTimes ==
    [i \in 1..NumTimes |-> CHOOSE t \in time_t : Cardinality({u \in time_t : u < t}) = i - 1]

\* the rows of table ohlcv on the server: one bar for every timestamp
TableRows ==
    [i \in 1..NumTimes |->
        [date_time |-> bpt_to_str(from_time_t(SortedTimes[i])), rec |-> "r1"]]

\* DATETIME comparison on the server
DateTimeLeq(a, b) == a.date < b.date \/ (a.date = b.date /\ a.time <= b.time)

\* the query load prepares: all rows, or WHERE date_time BETWEEN (?) and (?),
\* >= (?) or <= (?) with the bounds that are dates
LoadQuery(start, end) ==
    LET InRangeOf(row) ==
            /\ is_not_a_date_time(start) \/ DateTimeLeq(bpt_to_str(start), row.date_time)
            /\ is_not_a_date_time(end) \/ DateTimeLeq(row.date_time, bpt_to_str(end))
    IN SelectSeq(TableRows, InRangeOf)

\* the loop of load with insert overwriting the record of a key it finds
InsertRowsOverwrite(m, rows, n) ==
    LET F[i \in 0..n] ==
            IF i = 0 THEN m
            ELSE MapInsertOverwrite(F[i - 1], str_to_time_t(rows[i].date_time), rows[i].rec).map
    IN F[n]

\* the loop of load: series.insert(str_to_time_t(date_time), T(row)) for the
\* first n rows of the result set
InsertRows(m, rows, n) ==
    LET F[i \in 0..n] ==
            IF i = 0 THEN m
            ELSE MapInsert(F[i - 1], str_to_time_t(rows[i].date_time), rows[i].rec).map
    IN F[n]

\* the calls of load that can fail: has_table, the has_table and the query of
\* get_column_names, prepareStatement, and the fetching of a row
LoadFailPoints ==
    {"none", "has_table", "get_column_names.has_table",
     "get_column_names.executeQuery", "prepareStatement", "row"}

ColumnFailOf(fail) ==
    CASE fail = "get_column_names.has_table" -> "has_table"
      [] fail = "get_column_names.executeQuery" -> "executeQuery"
      [] OTHER -> "none"

\* what load leaves behind: the members and result, the map of the series and
\* the rows handed to it
Loaded(res, m, fetched) == [res |-> res, data |-> m, fetched |-> fetched]

\* the checks of load with the date range checked first
load_checks_range_first(c, T, table, start, end, fail) ==
    IF PtimeGreater(start, end) THEN Throws(c, c.con, c.tz, 4)
    ELSE LET h == has_table_result(c, table, "none", fail = "has_table") IN
    IF ~h.value THEN Throws(c, c.con, c.tz, 2)
    ELSE LET cm == columns_match_type_result(c, T, table, ColumnFailOf(fail)) IN
    IF cm.outcome # "returned" THEN cm
    ELSE IF ~cm.value THEN Throws(c, c.con, c.tz, 5)
    ELSE Returned(c, TRUE)

\* the checks load makes on a connected Interface before its query:
\* has_table (2), _columns_match_type<T> (5, or what get_column_names
\* throws), start > end (4)
load_checks(c, T, table, start, end, fail) ==
    LET h == has_table_result(c, table, "none", fail = "has_table") IN
    IF ~h.value THEN Throws(c, c.con, c.tz, 2)
    ELSE LET cm == columns_match_type_result(c, T, table, ColumnFailOf(fail)) IN
    IF cm.outcome # "returned" THEN cm
    ELSE IF ~cm.value THEN Throws(c, c.con, c.tz, 5)
    ELSE IF PtimeGreater(start, end) THEN Throws(c, c.con, c.tz, 4)
    ELSE Returned(c, TRUE)

\* load<T>(series, table, start, end): connect if not connected, the checks,
\* then the query and one insert per row, with TSDBInterfaceException(3) for
\* an sql::SQLException. failRow rows are fetched before fetching fails.
load_result(I, m, T, table, start, end, cfail, fail, failRow) ==
    LET c == IF isConnected(I) THEN Returned(I, FALSE) ELSE connect_result(I, cfail) IN
    IF c.outcome # "returned" THEN Loaded(c, m, << >>)
    ELSE LET v == load_checks(c, T, table, start, end, fail) IN
    IF v.outcome # "returned" THEN Loaded(v, m, << >>)
    ELSE IF fail = "prepareStatement" THEN Loaded(Throws(I, c.con, c.tz, 3), m, << >>)
    ELSE LET rows == LoadQuery(start, end)
             fails == fail = "row" /\ failRow <= Len(rows)
             n == IF fails THEN failRow ELSE Len(rows)
         IN Loaded(IF fails THEN Throws(I, c.con, c.tz, 3)
                            ELSE Ended(I, c.con, c.tz, "returned", 0, FALSE),
                   InsertRows(m, rows, n), SubSeq(rows, 1, n))

\* the date ranges handed to load: none, from the last timestamp on, and
\* one that starts after it ends
LoadRanges ==
    {<<NoPtime, NoPtime>>,
     <<from_time_t(SortedTimes[NumTimes]), NoPtime>>,
     <<from_time_t(SortedTimes[NumTimes]), from_time_t(SortedTimes[1])>>}

\* the record types a series is loaded as
LoadSchemas == {"OHLC", "BidAsk"}

\* the failures of the automatic connect of load that differ in what they
\* leave behind
LoadConnectFailPoints == {"none", "connect", "setSchema", "time_zone"}

load(o, T, table, start, end, cfail, fail, failRow) ==
    /\ _drv # "unconstructed"
    /\ alive[o]
    /\ isConnected(Members) => cfail = "none"
    /\ fail # "row" => failRow = 0
    /\ \E l \in {load_result(Members, _data[o], T, table, start, end, cfail, fail, failRow)} :
        /\ _con' = l.res.con
        /\ _session_tz' = l.res.tz
        /\ _data' = [_data EXCEPT ![o] = l.data]
        /\ insertedSince' = [insertedSince EXCEPT ![o] =
                @ \cup {str_to_time_t(l.fetched[i].date_time) : i \in 1..Len(l.fetched)}]
        /\ lastCall' = DbCall("load", o, table, T, start, end, l.res, l.fetched)
    /\ UNCHANGED <<alive, _meta, _isLoaded, valuesOwner, timestampsOwner, dp, _drv, loop>>

\* an Interface and its connection
NextInterface ==
    \/ \E driverFails \in BOOLEAN : Interface_ctor(driverFails)
    \/ \E fail \in ConnectFailPoints : connect(fail)
    \/ \E closeThrows, leftClosed \in BOOLEAN : disconnect(closeThrows, leftClosed)
    \/ \E name \in TableNames, cfail \in ConnectFailPoints, qfail \in BOOLEAN :
            has_table(name, cfail, qfail)

SpecInterface == Init /\ [][NextInterface]_vars

\* an Interface and one series it loads
NextLoad ==
    \/ \E driverFails \in BOOLEAN : Interface_ctor(driverFails)
    \/ \E T \in LoadSchemas, table \in TableNames, range \in LoadRanges,
          cfail \in LoadConnectFailPoints, fail \in LoadFailPoints, failRow \in 0..NumTimes :
            load("a", T, table, range[1], range[2], cfail, fail, failRow)
    \/ DefaultCtor("a", "")
    \/ \E t \in time_t, r \in Recs : insert("a", t, r)

SpecLoad == Init /\ [][NextLoad]_vars

\* ------------------------------------------------------------------- main

\* most elements rets takes before the loop is cut off
MaxRets == 3

\* positions of an iterator over the map of o: 1..size for the entries,
\* size + 1 for end()
End(o) == Len(_data[o]) + 1

\* what the program can do where the standard gives it no meaning
Undefined == {"continues", "crashed"}

\* for( it = ts1.begin(); ...
LoopInit(o) ==
    /\ loop.pc = "none"
    /\ alive[o]
    /\ loop' = [pc |-> "test", obj |-> o, it |-> 1, rets |-> << >>, before_begin |-> FALSE]
    /\ UNCHANGED <<tsvars, dp, dbvars>>

\* ... it != ts1.end(); ...
LoopTest ==
    /\ loop.pc = "test"
    /\ loop' = [loop EXCEPT !.pc = IF loop.it # End(loop.obj) THEN "body" ELSE "done"]
    /\ UNCHANGED <<tsvars, dp, dbvars>>

\* --it: the entry before, and no defined result at begin()
Decrement(o, it) ==
    IF it = 1
    THEN {[outcome |-> u, it |-> p] : u \in Undefined, p \in {1, End(o)}}
    ELSE {[outcome |-> "continues", it |-> it - 1]}

\* ++it: the entry after, and no defined result at end()
Increment(o, it) ==
    IF it = End(o)
    THEN {[outcome |-> u, it |-> p] : u \in Undefined, p \in 1..End(o)}
    ELSE {[outcome |-> "continues", it |-> it + 1]}

\* rets.push_back( std::make_pair(it->first, it->second.close-(--it)->second.close ));
\* The arguments of make_pair and the operands of the subtraction are
\* evaluated in an order the compiler chooses, so it->first is read before
\* or after the decrement; rets takes the position read.
LoopBody ==
    /\ loop.pc = "body"
    /\ Len(loop.rets) < MaxRets
    /\ \E d \in Decrement(loop.obj, loop.it), read \in {"before", "after"} :
        loop' = [loop EXCEPT
                    !.pc = IF d.outcome = "crashed" THEN "crashed" ELSE "step",
                    !.it = d.it,
                    !.before_begin = @ \/ loop.it = 1,
                    !.rets = IF d.outcome = "crashed" THEN @
                             ELSE Append(@, IF read = "before" THEN loop.it ELSE d.it)]
    /\ UNCHANGED <<tsvars, dp, dbvars>>

\* ... ++it)
LoopStep ==
    /\ loop.pc = "step"
    /\ \E i \in Increment(loop.obj, loop.it) :
        loop' = [loop EXCEPT
                    !.pc = IF i.outcome = "crashed" THEN "crashed" ELSE "test",
                    !.it = i.it]
    /\ UNCHANGED <<tsvars, dp, dbvars>>

\* main: ts1 is filled, then the loop runs over it
NextMain ==
    \/ DefaultCtor("a", "ts1")
    \/ \E t \in time_t, r \in Recs : loop.pc = "none" /\ insert("a", t, r)
    \/ LoopInit("a")
    \/ LoopTest
    \/ LoopBody
    \/ LoopStep

SpecMain == Init /\ [][NextMain]_vars

\* ================================================================== claims

Keys(m) == [i \in 1..Len(m) |-> m[i].first]
StrictlyAscending(seq) == \A i \in 1..(Len(seq) - 1) : seq[i] < seq[i + 1]
MinOf(S) == CHOOSE x \in S : \A y \in S : x <= y
MaxOf(S) == CHOOSE x \in S : \A y \in S : y <= x

\* C1: every insert overload returns true iff the timestamp was not a key
\* before the call; on a duplicate it returns false and the map (the record
\* stored at t, the size, every other entry) is exactly as before. A fresh
\* key is added and the entries that were there stay as they were.
C1_InsertReportsNewKey ==
    [][lastCall'.op = "insert" =>
        LET o == lastCall'.obj
            t == lastCall'.t IN
        /\ lastCall'.second = ~HasKey(_data[o], t)
        /\ HasKey(_data[o], t) =>
            /\ ~lastCall'.second
            /\ RecordAt(_data'[o], t) = RecordAt(_data[o], t)
            /\ Len(_data'[o]) = Len(_data[o])
            /\ _data'[o] = _data[o]
        /\ ~HasKey(_data[o], t) =>
            /\ KeySet(_data'[o]) = KeySet(_data[o]) \cup {t}
            /\ \A u \in KeySet(_data[o]) : RecordAt(_data'[o], u) = RecordAt(_data[o], u)
        /\ \A p \in Objs \ {o} : _data'[p] = _data[p]
        /\ UNCHANGED <<_meta, _isLoaded>>]_vars

\* a duplicate insert was refused on a series that holds the key
C1_Witness ==
    /\ lastCall.op = "insert"
    /\ ~lastCall.second
    /\ HasKey(_data[lastCall.obj], lastCall.t)

\* C2: get_timestamps() and begin()..end() list the keys strictly ascending
\* without repeats, and size() is the number of distinct timestamps inserted
\* since the map was last empty
C2_KeysAscendingSizeCountsDistinct ==
    \A o \in Objs : alive[o] =>
        /\ StrictlyAscending(get_timestamps(o))
        /\ StrictlyAscending(Keys(Iterate(o)))
        /\ size(o) = Cardinality(insertedSince[o])
        /\ Len(get_timestamps(o)) = size(o)

\* an insert has just filled a series with every timestamp in use
C2_Witness ==
    /\ lastCall.op = "insert"
    /\ lastCall.second
    /\ size(lastCall.obj) = NumTimes
    /\ lastCall.t = MinOf(time_t)

\* C3: first() and last() on a series without entries fail with an
\* EmptySeries error
C3_EmptySeriesError ==
    (lastCall.op \in {"first", "last"} /\ isEmpty(lastCall.obj)) =>
        lastCall.outcome = "EmptySeries"

\* C4: on a series with entries first() is the smallest key and last() the
\* largest, first() <= last(), and they are equal iff size() = 1
C4_FirstLastAreExtremes ==
    \A o \in Objs : (alive[o] /\ ~isEmpty(o)) =>
        \A f \in first_result(_data[o]), l \in last_result(_data[o]) :
            /\ f.outcome = "returned" /\ l.outcome = "returned"
            /\ f.pt = from_time_t(MinOf(KeySet(_data[o])))
            /\ l.pt = from_time_t(MaxOf(KeySet(_data[o])))
            /\ PtimeLeq(f.pt, l.pt)
            /\ (f.pt = l.pt) <=> (size(o) = 1)

\* last() has just returned on a series with two or more entries
C4_Witness ==
    /\ lastCall.op = "last"
    /\ lastCall.outcome = "returned"
    /\ size(lastCall.obj) >= 2
    /\ lastCall.pt = from_time_t(MaxOf(KeySet(_data[lastCall.obj])))
    /\ lastCall.pt # from_time_t(MinOf(KeySet(_data[lastCall.obj])))

\* the calls that change one series in place
Mutators == {"insert", "clear", "write_value", "set_meta"}

\* C5: copy construction and a completed copy assignment give the target the
\* source's mapping, label and flag and leave the source as it was; and an
\* insert, clear, record write through the values view or set_meta on one
\* series leaves every other series' mapping, label and flag unchanged
C5_CopyIsEqualAndIndependent ==
    [][/\ (\/ lastCall'.op = "copy_ctor"
           \/ lastCall'.op = "copy_assign" /\ lastCall'.outcome = "returned") =>
            LET o == lastCall'.obj
                s == lastCall'.arg IN
            /\ _data'[o] = _data[s] /\ _meta'[o] = _meta[s] /\ _isLoaded'[o] = _isLoaded[s]
            /\ _data'[s] = _data[s] /\ _meta'[s] = _meta[s] /\ _isLoaded'[s] = _isLoaded[s]
       /\ lastCall'.op \in Mutators =>
            \A p \in Objs \ {lastCall'.obj} :
                _data'[p] = _data[p] /\ _meta'[p] = _meta[p] /\ _isLoaded'[p] = _isLoaded[p]]_vars

\* a record has just been written through a values view element of one
\* series while another series with the same label and the same keys holds
\* different records
C5_Witness ==
    /\ lastCall.op = "write_value"
    /\ \E s \in Objs \ {lastCall.obj} :
        /\ alive[s]
        /\ _meta[s] = _meta[lastCall.obj] /\ _meta[s] # ""
        /\ Keys(_data[s]) = Keys(_data[lastCall.obj])
        /\ _data[s] # _data[lastCall.obj]

\* C6 as stated: after move construction or move assignment from s the
\* destination holds what s held, and s is empty and not loaded
C6_MoveEmptiesSource ==
    [][lastCall'.op \in {"move_ctor", "move_assign"} =>
        LET o == lastCall'.obj
            s == lastCall'.arg IN
        /\ _data'[o] = _data[s] /\ _meta'[o] = _meta[s] /\ _isLoaded'[o] = _isLoaded[s]
        /\ _data'[s] = EmptyMap /\ ~_isLoaded'[s]]_vars

\* C6 amended: after move construction or move assignment from another
\* series s the destination holds what s held and s is empty and not
\* loaded; a move assignment of a series to itself leaves it unchanged
C6_MoveFromOtherEmptiesSource ==
    [][lastCall'.op \in {"move_ctor", "move_assign"} =>
        LET o == lastCall'.obj
            s == lastCall'.arg IN
        IF o # s
        THEN /\ _data'[o] = _data[s] /\ _meta'[o] = _meta[s] /\ _isLoaded'[o] = _isLoaded[s]
             /\ _data'[s] = EmptyMap /\ ~_isLoaded'[s]
        ELSE _data'[o] = _data[o] /\ _meta'[o] = _meta[o] /\ _isLoaded'[o] = _isLoaded[o]]_vars

\* a labelled series with entries has just been move assigned to another
C6_Witness ==
    /\ lastCall.op = "move_assign"
    /\ lastCall.obj # lastCall.arg
    /\ size(lastCall.obj) >= 1 /\ meta(lastCall.obj) # ""
    /\ isEmpty(lastCall.arg) /\ ~isLoaded(lastCall.arg)

\* C7 as stated: a copy assignment that fails leaves the target's mapping,
\* label and flag exactly as before the call
C7_CopyAssignAllOrNothing ==
    [][(lastCall'.op = "copy_assign" /\ lastCall'.outcome # "returned") =>
        LET o == lastCall'.obj IN
        _data'[o] = _data[o] /\ _meta'[o] = _meta[o] /\ _isLoaded'[o] = _isLoaded[o]]_vars

\* C7 amended: operator= gives the basic guarantee. When it completes, the
\* target's mapping, label and flag equal the source's. When it fails, the
\* source, the target's label and the target's flag are as before; a failure
\* while copying the label leaves the target with the source's mapping next
\* to its old label and flag, and a failure while copying the mapping leaves
\* a map that is sorted and without repeated keys.
C7_CopyAssignBasicGuarantee ==
    [][lastCall'.op = "copy_assign" =>
        LET o == lastCall'.obj
            s == lastCall'.arg IN
        /\ _data'[s] = _data[s] /\ _meta'[s] = _meta[s] /\ _isLoaded'[s] = _isLoaded[s]
        /\ lastCall'.outcome = "returned" =>
            _data'[o] = _data[s] /\ _meta'[o] = _meta[s] /\ _isLoaded'[o] = _isLoaded[s]
        /\ lastCall'.outcome # "returned" =>
            _meta'[o] = _meta[o] /\ _isLoaded'[o] = _isLoaded[o]
        /\ lastCall'.outcome = "bad_alloc_in_meta" => _data'[o] = _data[s]
        /\ lastCall'.outcome = "bad_alloc_in_data" => StrictlyAscending(Keys(_data'[o]))]_vars

\* a copy assignment has just failed in the label: the target holds the
\* source's mapping, which it did not hold before, next to its own label
C7_Witness ==
    /\ lastCall.op = "copy_assign"
    /\ lastCall.outcome = "bad_alloc_in_meta"
    /\ _data[lastCall.obj] = _data[lastCall.arg] /\ size(lastCall.obj) >= 1
    /\ _meta[lastCall.obj] # _meta[lastCall.arg]

\* C8: the values and timestamps views of every series traverse that
\* series' own current mapping
C8_ViewsTraverseOwnMapping ==
    \A o \in Objs : alive[o] =>
        /\ ValuesTraversal(o) = [i \in 1..Len(_data[o]) |-> _data[o][i].second]
        /\ TimeStampsTraversal(o) = Keys(_data[o])

\* two series have just been swapped and hold different entries
C8_Witness ==
    /\ lastCall.op = "swap"
    /\ lastCall.obj # lastCall.arg
    /\ ~isEmpty(lastCall.obj) /\ ~isEmpty(lastCall.arg)
    /\ Keys(_data[lastCall.obj]) # Keys(_data[lastCall.arg])

\* C9: swap(a, b) gives a the mapping, label and flag b had and b those a
\* had, and a second swap restores both
C9_SwapExchangesAll ==
    [][lastCall'.op = "swap" =>
        LET a == lastCall'.obj
            b == lastCall'.arg
            again == SwapState([data |-> _data'[a], meta |-> _meta'[a], isLoaded |-> _isLoaded'[a]],
                               [data |-> _data'[b], meta |-> _meta'[b], isLoaded |-> _isLoaded'[b]]) IN
        /\ _data'[a] = _data[b] /\ _meta'[a] = _meta[b] /\ _isLoaded'[a] = _isLoaded[b]
        /\ _data'[b] = _data[a] /\ _meta'[b] = _meta[a] /\ _isLoaded'[b] = _isLoaded[a]
        /\ again.ts1 = State(a) /\ again.ts2 = State(b)
        /\ \A p \in Objs \ {a, b} : _data'[p] = _data[p] /\ _meta'[p] = _meta[p]]_vars

\* two series with different labels and different entries have just been swapped
C9_Witness ==
    /\ lastCall.op = "swap"
    /\ lastCall.obj # lastCall.arg
    /\ _meta[lastCall.obj] # _meta[lastCall.arg]
    /\ _data[lastCall.obj] # _data[lastCall.arg]
    /\ size(lastCall.obj) >= 1

\* C10: clear() leaves no entry (size() = 0, isEmpty()), leaves the label and
\* the flag as they were, and an insert of a timestamp that was present
\* before the clear would then return true
C10_ClearKeepsMeta ==
    [][lastCall'.op = "clear" =>
        LET o == lastCall'.obj IN
        /\ Len(_data'[o]) = 0 /\ _data'[o] = EmptyMap
        /\ _meta'[o] = _meta[o] /\ _isLoaded'[o] = _isLoaded[o]
        /\ \A t \in KeySet(_data[o]), r \in Recs : MapInsert(_data'[o], t, r).second]_vars

\* a labelled series has just been cleared
C10_Witness ==
    /\ lastCall.op = "clear"
    /\ isEmpty(lastCall.obj) /\ size(lastCall.obj) = 0
    /\ meta(lastCall.obj) # ""

\* C11: on(t) yields the entry stored at t when t is a key and end() when it
\* is not, never fails for a missing key, and leaves the series as it was
C11_OnFindsEntryOrEnd ==
    [][lastCall'.op = "on" =>
        LET o == lastCall'.obj
            t == lastCall'.t IN
        /\ lastCall'.outcome = IF HasKey(_data[o], t) THEN "returned" ELSE "end"
        /\ _data' = _data /\ _meta' = _meta /\ _isLoaded' = _isLoaded]_vars

\* C12: for every series a full traversal of the values view yields exactly
\* the size() stored records and a full traversal of the timestamps view
\* exactly the size() keys, in ascending key order and position for position
\* aligned with begin()..end(); this holds in every state, so right after an
\* insert or a clear too, and every traversal of one state yields the same
C12_TraversalsYieldContents ==
    \A o \in Objs : alive[o] =>
        /\ Len(ValuesTraversal(o)) = size(o)
        /\ Len(TimeStampsTraversal(o)) = size(o)
        /\ StrictlyAscending(TimeStampsTraversal(o))
        /\ \A i \in 1..size(o) :
            /\ \A x \in ReadValue(o, i) :
                x.outcome = "returned" /\ x.second = Iterate(o)[i].second
            /\ \A x \in ReadTimeStamp(o, i) :
                x.outcome = "returned" /\ x.first = Iterate(o)[i].first

Gaps(m) == {m[i + 1].first - m[i].first : i \in 1..(Len(m) - 1)}
FundamentalFrequency(m) == MinOf(Gaps(m))
Bucket(t, freq) == (t \div freq) * freq

\* C14: frequency() on a series with two or more entries returns the smallest
\* difference between consecutive timestamps, and on a series with fewer
\* entries it fails with InsufficientData
C14_FrequencyIsMinimumGap ==
    [][lastCall'.op = "frequency" =>
        LET m == _data[lastCall'.obj] IN
        IF Len(m) >= 2
        THEN lastCall'.outcome = "returned" /\ lastCall'.t = FundamentalFrequency(m)
        ELSE lastCall'.outcome = "InsufficientData"]_vars

\* C15: resample(freq) returns a series with exactly one entry per bucket
\* floor(t / freq) * freq that holds an entry of the source, and a bucket
\* that holds one source entry carries the record of that entry (its open,
\* close, high, low and volume, or its bid and ask)
C15_ResampleBuckets ==
    [][(lastCall'.op = "resample" /\ lastCall'.t > 0) =>
        LET o == lastCall'.obj
            freq == lastCall'.t
            res == resample_result(State(o), freq) IN
        /\ res.outcome = "returned_series"
        /\ StrictlyAscending(Keys(res.data))
        /\ KeySet(res.data) = {Bucket(t, freq) : t \in KeySet(_data[o])}
        /\ \A i \in 1..Len(_data[o]) :
            (\A j \in 1..Len(_data[o]) :
                Bucket(_data[o][j].first, freq) = Bucket(_data[o][i].first, freq) => j = i)
            => RecordAt(res.data, Bucket(_data[o][i].first, freq)) = _data[o][i].second]_vars

\* C16: resample(freq) fails with InvalidResampleFrequency when freq <= 0 or
\* freq is smaller than the fundamental frequency of the series, and is
\* accepted when freq is at least the fundamental frequency
C16_ResampleRejectsFinerFrequency ==
    [][lastCall'.op = "resample" =>
        LET m == _data[lastCall'.obj]
            freq == lastCall'.t IN
        /\ (freq <= 0 \/ (Len(m) >= 2 /\ freq < FundamentalFrequency(m)))
            => lastCall'.outcome = "InvalidResampleFrequency"
        /\ (freq > 0 /\ Len(m) >= 2 /\ freq >= FundamentalFrequency(m))
            => lastCall'.outcome # "InvalidResampleFrequency"]_vars

C18_ColumnNamesFixed ==
    \A o \in Objs : alive[o] =>
        /\ column_names("OHLC", State(o)) = <<"open", "high", "low", "close">>
        /\ column_names("OHLCV", State(o)) = <<"open", "high", "low", "close", "volume">>
        /\ column_names("BidAsk", State(o)) = <<"bid", "ask">>

\* a labelled series with two entries stands next to one that has just been
\* cleared
C18_Witness ==
    /\ lastCall.op = "clear"
    /\ \E o \in Objs \ {lastCall.obj} : alive[o] /\ size(o) >= 2 /\ meta(o) # ""

\* the number of fields of a record type, and a field by its name
FieldCount(T) == CASE T = "OHLC" -> 4 [] T = "OHLCV" -> 5 [] T = "BidAsk" -> 2
Field(rec, name) ==
    CASE name = "open" -> rec.open
      [] name = "high" -> rec.high
      [] name = "low" -> rec.low
      [] name = "close" -> rec.close
      [] name = "volume" -> rec.volume
      [] name = "bid" -> rec.bid
      [] name = "ask" -> rec.ask

\* C19: construction from a vector of n values fails, with DataPointException
\* of code 1000, exactly when n is less than the number k of fields of the
\* record type; for n >= k it succeeds and builds what it builds from the
\* first k values alone
C19_ShortVectorFails ==
    dp.ctor = "vector" =>
        LET k == FieldCount(dp.schema)
            n == Len(dp.init) IN
        /\ (dp.outcome = "DataPointException" /\ dp.code = 1000) <=> n < k
        /\ n >= k =>
            /\ dp.outcome = "constructed"
            /\ dp.rec \in {res.rec : res \in FromVector(dp.schema, SubSeq(dp.init, 1, k))}

\* an OHLCV has just been refused a vector of four values
C19_Witness ==
    /\ dp.ctor = "vector" /\ dp.schema = "OHLCV"
    /\ Len(dp.init) = 4
    /\ dp.outcome = "DataPointException" /\ dp.code = 1000

\* the double that holds an int
IntAsDouble(n) == [m |-> n, e |-> 0]

\* C20 as stated: a record built from a vector v has its i-th field, in the
\* order of column_names(), equal to v[i]
C20_FieldsEqualVector ==
    (dp.ctor = "vector" /\ dp.outcome = "constructed") =>
        \A i \in 1..Len(dp_names(dp.schema)) :
            LET name == dp_names(dp.schema)[i]
                f == Field(dp.rec, name) IN
            IF name = "volume" THEN IntAsDouble(f) = dp.init[i] ELSE f = dp.init[i]

\* C20 amended: a record built from a vector v has its i-th field, in the
\* order of column_names(), equal to v[i] when the field is a double, and
\* equal to v[i] converted to int (cut towards zero) when it is the volume
\* of an OHLCV; it is the record the constructor from named fields builds
\* from these values; and the i-th field is the one named by column i + 1 of
\* the query the loader sends, filled from element i of the row it reads
C20_FieldsFollowNames ==
    (dp.ctor = "vector" /\ dp.outcome = "constructed") =>
        LET T == dp.schema
            v == dp.init
            row == LoadRow(<<v[1]>> \o v) IN
        /\ \A i \in 1..Len(dp_names(T)) :
            LET name == dp_names(T)[i]
                f == Field(dp.rec, name) IN
            /\ IF name = "volume" THEN f \in DoubleToInt(v[i]) ELSE f = v[i]
            /\ LoadQueryColumns(T)[i + 1] = name
            /\ IF name = "volume" THEN f \in DoubleToInt(row[i]) ELSE f = row[i]
        /\ dp.rec = CASE T = "OHLC" -> OHLC_fields(v[1], v[2], v[3], v[4])
                      [] T = "OHLCV" -> OHLCV_fields(v[1], v[2], v[3], v[4], dp.rec.volume)
                      [] T = "BidAsk" -> BidAsk_fields(v[1], v[2])

\* an OHLCV has just been built from six values whose fifth is -2.5: its
\* volume is -2
C20_Witness ==
    /\ dp.ctor = "vector" /\ dp.schema = "OHLCV" /\ dp.outcome = "constructed"
    /\ Len(dp.init) = 6
    /\ dp.init[5] = [m |-> 0 - 5, e |-> 0 - 1]
    /\ dp.rec.volume = 0 - 2
    /\ dp.rec.open # dp.rec.high

\* C21: assign(rhs) either completes and leaves the target with the mapping,
\* label and flag rhs had, or fails in making the copy and leaves the target
\* exactly as it was; in both cases the caller's rhs is as it was, and so is
\* every other series
C21_AssignStrongGuarantee ==
    [][lastCall'.op = "assign" =>
        LET o == lastCall'.obj
            s == lastCall'.arg IN
        /\ lastCall'.outcome \in {"returned", "bad_alloc"}
        /\ lastCall'.outcome = "returned" =>
            _data'[o] = _data[s] /\ _meta'[o] = _meta[s] /\ _isLoaded'[o] = _isLoaded[s]
        /\ lastCall'.outcome = "bad_alloc" =>
            _data'[o] = _data[o] /\ _meta'[o] = _meta[o] /\ _isLoaded'[o] = _isLoaded[o]
        /\ \A p \in Objs \ {o} :
            _data'[p] = _data[p] /\ _meta'[p] = _meta[p] /\ _isLoaded'[p] = _isLoaded[p]]_vars

\* an assign has just failed while the target holds entries and a label
\* that differ from those of rhs
C21_Witness ==
    /\ lastCall.op = "assign"
    /\ lastCall.outcome = "bad_alloc"
    /\ lastCall.obj # lastCall.arg
    /\ size(lastCall.obj) >= 1
    /\ _data[lastCall.obj] # _data[lastCall.arg]
    /\ _meta[lastCall.obj] # _meta[lastCall.arg]

\* C22: operator[](k) returns the record stored at k when k is a key; when k
\* is not a key it raises std::out_of_range; in both cases the mapping, and
\* so size(), the label and the flag of every series are as before
C22_SubscriptLooksUpOnly ==
    [][lastCall'.op = "subscript" =>
        LET o == lastCall'.obj
            t == lastCall'.t
            res == subscript_result(_data[o], t) IN
        /\ lastCall'.outcome = res.outcome
        /\ HasKey(_data[o], t) =>
            /\ res.outcome = "returned"
            /\ \E i \in 1..Len(_data[o]) :
                _data[o][i].first = t /\ res.second = _data[o][i].second
        /\ ~HasKey(_data[o], t) => res.outcome = "std::out_of_range"
        /\ Len(_data'[o]) = Len(_data[o])
        /\ _data' = _data /\ _meta' = _meta /\ _isLoaded' = _isLoaded]_vars

\* a subscript with a timestamp that is not a key has just failed on a
\* series that holds another entry
C22_Witness ==
    /\ lastCall.op = "subscript"
    /\ lastCall.outcome = "std::out_of_range"
    /\ size(lastCall.obj) >= 1
    /\ ~HasKey(_data[lastCall.obj], lastCall.t)

\* C23: a store of a record r through the element of the values view at a
\* timestamp leaves r stored at that timestamp, whatever r is, and changes
\* nothing else: the keys and size of the series, its other records, its
\* label and flag, and every other series are as before
C23_WriteChangesOnlyThatRecord ==
    [][(lastCall'.op = "write_value" /\ lastCall'.outcome = "returned") =>
        LET o == lastCall'.obj
            m == _data[valuesOwner[o]]
            i == LowerBound(m, lastCall'.t) IN
        /\ \A r \in Recs :
            LET new == WriteThroughValue(m, i, r) IN
            /\ new[i].second = r
            /\ Keys(new) = Keys(m)
            /\ \A j \in 1..Len(m) : j # i => new[j] = m[j]
        /\ Keys(_data'[o]) = Keys(_data[o])
        /\ \A p \in Objs \ {o} : _data'[p] = _data[p]
        /\ _meta' = _meta /\ _isLoaded' = _isLoaded]_vars

\* the server has a table of that name
TableExists(name) == \E r \in information_schema_tables : r.table_name = name

\* C24: has_table(name) never throws: whatever the connection state, it
\* returns true iff the table exists and no call failed, and false when the
\* automatic connect or the query fails. (lastCall.second tells that the
\* query failed.)
C24_HasTableNeverThrows ==
    [][lastCall'.op = "has_table" =>
        /\ lastCall'.outcome = "returned"
        /\ lastCall'.value = (TableExists(lastCall'.table) /\ ~lastCall'.second)]_vars

\* C25: whenever isConnected() is true the connection is fully configured:
\* the schema is selected, the session time zone of the server is '+00:00'
\* and so is the stored one; a connect() that threw leaves no connection that
\* isConnected() reports.
C25_ConnectedMeansConfigured ==
    isConnected(Members) =>
        /\ _con.schema = "tsdb"
        /\ _con.time_zone = "+00:00"
        /\ _session_tz = "+00:00"

\* C26: disconnect() never throws, and after it returns isConnected() is
\* false and the stored session time zone is empty, whatever the state it was
\* called in and also when close() reported an SQL error. (lastCall.second
\* tells that close() threw.)
C26_DisconnectAlwaysDisconnects ==
    [][lastCall'.op = "disconnect" =>
        /\ lastCall'.outcome = "returned"
        /\ _con'.null \/ _con'.closed
        /\ _session_tz' = ""]_vars

\* the table is in schema DATABASE and its columns contain every field name
\* of T
ColumnsCover(table, T) ==
    \A i \in 1..Len(dp_names(T)) :
        dp_names(T)[i] \in ShowColumns(Connection(FALSE, "tsdb", "+00:00"), table).cols

\* the automatic connect of load failed
ConnectFailed(call) == call.code \in {1, 6}

\* C27: load validates before it touches the series, in this order: connect
\* if not connected, unknown table -> error code 2, columns of the table not
\* a superset of the field names of T -> 5, start > end -> 4; an earlier
\* check wins over a later one, and a load that ends with one of these codes
\* leaves the mapping, the label and the loaded flag of the series unchanged.
C27_LoadValidatesInOrder ==
    [][lastCall'.op = "load" /\ lastCall'.outcome # "crashed" =>
        LET call == lastCall'
            o == lastCall'.obj
            known == TableExists(call.table)
            cover == ColumnsCover(call.table, call.schema)
            late == PtimeGreater(call.start, call.end)
        IN /\ ~known /\ ~ConnectFailed(call) => call.code = 2
           /\ call.code = 5 => known /\ ~cover
           /\ call.code = 4 => known /\ cover /\ late
           /\ known /\ ~cover => call.code \in {1, 6, 2, 7, 5}
           /\ known /\ cover /\ late => call.code \in {1, 6, 2, 7, 4}
           /\ call.code \in {2, 5, 4} =>
                /\ _data'[o] = _data[o]
                /\ _meta'[o] = _meta[o]
                /\ _isLoaded'[o] = _isLoaded[o]]_vars

\* a load of a series that holds entries, from a table that lacks the
\* columns of the record type and with a date range that starts after it
\* ends, has ended with the code of the earlier of the two checks
C27_Witness ==
    /\ lastCall.op = "load"
    /\ lastCall.code = 5
    /\ TableExists(lastCall.table)
    /\ PtimeGreater(lastCall.start, lastCall.end)
    /\ size(lastCall.obj) >= 1

\* the timestamps of the rows a load handed to the series
FetchedKeys(call) ==
    {str_to_time_t(call.fetched[j].date_time) : j \in 1..Len(call.fetched)}

\* C28: load only adds entries. Every entry the series held before is still
\* there with the same record, so a row whose timestamp is already present
\* is dropped; every row fetched, also before a failure with code 3, is a
\* key of the series afterwards, with the record of the row when the key is
\* new; and no other key appears.
C28_LoadOnlyAdds ==
    [][lastCall'.op = "load" =>
        LET o == lastCall'.obj
            old == _data[o]
            new == _data'[o]
        IN /\ \A i \in 1..Len(old) :
                /\ HasKey(new, old[i].first)
                /\ RecordAt(new, old[i].first) = old[i].second
           /\ KeySet(new) = KeySet(old) \cup FetchedKeys(lastCall')
           /\ \A j \in 1..Len(lastCall'.fetched) :
                LET row == lastCall'.fetched[j] IN
                ~HasKey(old, str_to_time_t(row.date_time)) =>
                    RecordAt(new, str_to_time_t(row.date_time)) = row.rec
           /\ lastCall'.outcome = "crashed" \/ lastCall'.code \in {1, 6, 2, 7, 5, 4} =>
                new = old]_vars

\* a load has failed with code 3 after fetching rows: one of them met an
\* entry with another record, which the series still holds, and one of them
\* was new and is in the series
C28_Witness ==
    /\ lastCall.op = "load"
    /\ lastCall.code = 3
    /\ \E j \in 1..Len(lastCall.fetched) :
            RecordAt(_data[lastCall.obj], str_to_time_t(lastCall.fetched[j].date_time))
                # lastCall.fetched[j].rec
    /\ \E j \in 1..Len(lastCall.fetched) :
            RecordAt(_data[lastCall.obj], str_to_time_t(lastCall.fetched[j].date_time))
                = lastCall.fetched[j].rec

\* C29: the loaded flag is set once population is complete: after a load
\* that returned, isLoaded() of the series is true.
C29_LoadSetsLoadedFlag ==
    [][lastCall'.op = "load" /\ lastCall'.outcome = "returned" =>
        _isLoaded'[lastCall'.obj]]_vars

\* C30: the return-accumulation loop never moves the iterator before
\* begin(), takes no entry twice, and when it has ended it has taken every
\* entry of the series once, in order.
C30_LoopVisitsEachEntryOnce ==
    /\ ~loop.before_begin
    /\ \A i, j \in 1..Len(loop.rets) : i # j => loop.rets[i] # loop.rets[j]
    /\ loop.pc = "done" => loop.rets = [i \in 1..size(loop.obj) |-> i]

====
